---- MODULE Spec2Model ----
(***************************************************************************)
(* The pi automaton of python/pi.py: the Expression machine (ExpπAut), the *)
(* Command machine (CmdπAut) and the Declaration machine (DecπAut), i.e.   *)
(* the composed evaluator whose eval() tries the declaration cases, then   *)
(* the command cases, then the expression cases.                           *)
(*                                                                         *)
(* Python values are tagged tuples, the tag first:                         *)
(*   <<"num", n>>    a float (also a location, which is a float)           *)
(*   <<"bool", b>>   a bool (an int subclass: True is 1, False is 0)       *)
(*   <<"str", s>>    a str (a marker such as "#SUM", or an identifier)     *)
(*   <<"term", t>>   a Statement object                                    *)
(*   <<"dict", f>>   a dict (an Env, a Bind mapping)                       *)
(*   <<"list", r>>   a reference to the list object r of the heap          *)
(* Floats are modelled by the integers they hold: every literal of the     *)
(* model is a small whole number, on which float arithmetic is exact.      *)
(* Terms are tuples <<class name, opr[0], opr[1]>>.                        *)
(* Lists are the one kind of object that is aliased and mutated in place   *)
(* (the location ledger), so they live in a heap and are held by reference.*)
(***************************************************************************)
EXTENDS Integers, Sequences, FiniteSets, TLC

VARIABLES
    val,        \* self["val"]: the value stack, top = last element
    cnt,        \* self["cnt"]: the control stack, top = last element
    env,        \* self["env"]: name -> location
    sto,        \* self["sto"]: location -> value
    locs,       \* self["locs"]: reference to the ledger's list object
    heap,       \* the list objects, by reference
    err,        \* "none", or the exception that ended the session
    prog,       \* history: the term that was seeded
    env0,       \* history: the environment the machine started with
    sto0,       \* history: the store the machine started with
    loopIters,  \* history: LOOP steps that found the condition true
    blkHist,    \* history: one frame per Blk that is being evaluated
    shadow      \* SeqSpec only: the second machine

vars == <<val, cnt, env, sto, locs, heap, err, prog, env0, sto0, loopIters, blkHist, shadow>>

----------------------------------------------------------------------------
(* Bounds *)

\* numeric literals and initial store values range over 0..MaxNum
MaxNum == 2
\* loopIters counts up to MaxIters and stays there
MaxIters == 3

----------------------------------------------------------------------------
(* Python values *)

PyNum(n) == <<"num", n>>
PyBool(b) == <<"bool", b>>
PyStr(s) == <<"str", s>>
PyTerm(t) == <<"term", t>>
PyDict(f) == <<"dict", f>>
PyList(r) == <<"list", r>>

IsScalar(v) == v[1] \in {"num", "bool"}

\* the number a float or a bool stands for in arithmetic, comparison and hashing
NumOf(v) == IF v[1] = "bool" THEN (IF v[2] THEN 1 ELSE 0) ELSE v[2]

\* bool(v), h the heap that holds the lists
Truthy(v, h) ==
    IF v[1] = "bool" THEN v[2]
    ELSE IF v[1] = "num" THEN v[2] # 0
    ELSE IF v[1] = "str" THEN v[2] # ""
    ELSE IF v[1] = "dict" THEN DOMAIN v[2] # {}
    ELSE IF v[1] = "list" THEN h[v[2]] # <<>>
    ELSE TRUE

\* v1 == v2: numbers and bools compare by number, values of different kinds are
\* unequal, Statement objects (no __eq__) are taken equal when they are alike
PyEq(v1, v2) ==
    IF IsScalar(v1) /\ IsScalar(v2) THEN NumOf(v1) = NumOf(v2)
    ELSE IF v1[1] # v2[1] THEN FALSE
    ELSE v1[2] = v2[2]

EmptyDict == [k \in {} |-> PyNum(0)]

\* d1.update(d2), as a new mapping
DictUpdate(d1, d2) ==
    [k \in (DOMAIN d1) \cup (DOMAIN d2) |-> IF k \in DOMAIN d2 THEN d2[k] ELSE d1[k]]

----------------------------------------------------------------------------
(* Terms *)

Num(f) == <<"Num", f>>
Sum(e1, e2) == <<"Sum", e1, e2>>
Sub(e1, e2) == <<"Sub", e1, e2>>
Mul(e1, e2) == <<"Mul", e1, e2>>
Eq(e1, e2) == <<"Eq", e1, e2>>
Not(e) == <<"Not", e>>
Id(s) == <<"Id", s>>
Assign(i, e) == <<"Assign", i, e>>
Loop(be, c) == <<"Loop", be, c>>
CSeq(c1, c2) == <<"CSeq", c1, c2>>
Bind(i, e) == <<"Bind", i, e>>
Ref(e) == <<"Ref", e>>
Cns(e) == <<"Cns", e>>
Blk(d, c) == <<"Blk", d, c>>
DSeq(d1, d2) == <<"DSeq", d1, d2>>

\* isinstance(d, cls), cls one of the concrete classes
isinstance(d, cls) == d[1] = "term" /\ d[2][1] = cls

\* d == KW, KW a marker string
IsKW(d, kw) == d = PyStr(kw)

----------------------------------------------------------------------------
(* The machine as a record, and the stack primitives of ExpπAut *)

Machine(v, c, e, s, l, h, x) ==
    [val |-> v, cnt |-> c, env |-> e, sto |-> s, locs |-> l, heap |-> h, err |-> x]

Raise(m, exc) == [m EXCEPT !.err = exc]

Ok(m) == m.err = "none"

pushVal(m, v) == [m EXCEPT !.val = Append(@, v)]

\* the value popVal returns; read it only when the pop succeeds
topVal(m) == m.val[Len(m.val)]

\* popVal's effect: vs[len(vs) - 1] raises IndexError on an empty list
popVal(m) ==
    IF ~Ok(m) THEN m
    ELSE IF m.val = <<>> THEN Raise(m, "IndexError")
    ELSE [m EXCEPT !.val = SubSeq(@, 1, Len(@) - 1)]

pushCnt(m, e) == [m EXCEPT !.cnt = Append(@, e)]

topCnt(m) == m.cnt[Len(m.cnt)]

popCnt(m) ==
    IF ~Ok(m) THEN m
    ELSE IF m.cnt = <<>> THEN Raise(m, "IndexError")
    ELSE [m EXCEPT !.cnt = SubSeq(@, 1, Len(@) - 1)]

emptyCnt(m) == Len(m.cnt) = 0

\* e.opr[i]
opr(e, i) == e[2][i + 2]

----------------------------------------------------------------------------
(* ExpπAut *)

\* faulty variant: the Sum step pushes e2 below e1
SumLeftFirst(m, e) ==
    pushCnt(pushCnt(pushCnt(m, PyStr("#SUM")), PyTerm(opr(e, 1))), PyTerm(opr(e, 0)))

__evalSum(m, e) ==
    LET e1 == opr(e, 0)
        e2 == opr(e, 1)
    IN  pushCnt(pushCnt(pushCnt(m, PyStr("#SUM")), PyTerm(e1)), PyTerm(e2))

\* v1 + v2, v1 - v2, v1 * v2 raise TypeError unless both are numbers (or bools)
Arith(m, v1, v2, r) ==
    IF ~(IsScalar(v1) /\ IsScalar(v2)) THEN Raise(m, "TypeError")
    ELSE pushVal(m, PyNum(r))

__evalSumKW(m) ==
    LET v1 == topVal(m)
        m1 == popVal(m)
        v2 == topVal(m1)
        m2 == popVal(m1)
    IN  IF Ok(m2) THEN Arith(m2, v1, v2, NumOf(v1) + NumOf(v2)) ELSE m2

__evalMul(m, e) ==
    LET e1 == opr(e, 0)
        e2 == opr(e, 1)
    IN  pushCnt(pushCnt(pushCnt(m, PyStr("#MUL")), PyTerm(e1)), PyTerm(e2))

\* faulty variant: the MUL marker adds
MulKWAdds(m) ==
    LET v1 == topVal(m)
        m1 == popVal(m)
        v2 == topVal(m1)
        m2 == popVal(m1)
    IN  IF Ok(m2) THEN Arith(m2, v1, v2, NumOf(v1) + NumOf(v2)) ELSE m2

__evalMulKW(m) ==
    LET v1 == topVal(m)
        m1 == popVal(m)
        v2 == topVal(m1)
        m2 == popVal(m1)
    IN  IF Ok(m2) THEN Arith(m2, v1, v2, NumOf(v1) * NumOf(v2)) ELSE m2

__evalSub(m, e) ==
    LET e1 == opr(e, 0)
        e2 == opr(e, 1)
    IN  pushCnt(pushCnt(pushCnt(m, PyStr("#SUB")), PyTerm(e1)), PyTerm(e2))

\* faulty variant: the SUB marker subtracts the first popped value from the second
SubKWSwapped(m) ==
    LET v1 == topVal(m)
        m1 == popVal(m)
        v2 == topVal(m1)
        m2 == popVal(m1)
    IN  IF Ok(m2) THEN Arith(m2, v1, v2, NumOf(v2) - NumOf(v1)) ELSE m2

__evalSubKW(m) ==
    LET v1 == topVal(m)
        m1 == popVal(m)
        v2 == topVal(m1)
        m2 == popVal(m1)
    IN  IF Ok(m2) THEN Arith(m2, v1, v2, NumOf(v1) - NumOf(v2)) ELSE m2

\* faulty variant: a Num is popped and its value is not pushed
NumNotPushed(m, n) == m

__evalNum(m, n) ==
    LET f == opr(n, 0)
    IN  pushVal(m, PyNum(f))

__evalEq(m, e) ==
    LET e1 == opr(e, 0)
        e2 == opr(e, 1)
    IN  pushCnt(pushCnt(pushCnt(m, PyStr("#EQ")), PyTerm(e1)), PyTerm(e2))

__evalEqKW(m) ==
    LET v1 == topVal(m)
        m1 == popVal(m)
        v2 == topVal(m1)
        m2 == popVal(m1)
    IN  IF Ok(m2) THEN pushVal(m2, PyBool(PyEq(v1, v2))) ELSE m2

__evalNot(m, e) ==
    LET e1 == opr(e, 0)
    IN  pushCnt(pushCnt(m, PyStr("#NOT")), PyTerm(e1))

\* faulty variant: the NOT marker pushes the truth value without negating it
NotKWKeeps(m) ==
    LET v == topVal(m)
        m1 == popVal(m)
    IN  IF Ok(m1) THEN pushVal(m1, PyBool(Truthy(v, m1.heap))) ELSE m1

__evalNotKW(m) ==
    LET v == topVal(m)
        m1 == popVal(m)
    IN  IF Ok(m1) THEN pushVal(m1, PyBool(~Truthy(v, m1.heap))) ELSE m1

\* ExpπAut.eval
ExpEval(m) ==
    LET e == topCnt(m)
        m1 == popCnt(m)
    IN  IF ~Ok(m1) THEN m1
        ELSE IF isinstance(e, "Sum") THEN __evalSum(m1, e)
        ELSE IF IsKW(e, "#SUM") THEN __evalSumKW(m1)
        ELSE IF isinstance(e, "Sub") THEN __evalSub(m1, e)
        ELSE IF IsKW(e, "#SUB") THEN __evalSubKW(m1)
        ELSE IF isinstance(e, "Mul") THEN __evalMul(m1, e)
        ELSE IF IsKW(e, "#MUL") THEN __evalMulKW(m1)
        ELSE IF isinstance(e, "Num") THEN __evalNum(m1, e)
        ELSE IF isinstance(e, "Eq") THEN __evalEq(m1, e)
        ELSE IF IsKW(e, "#EQ") THEN __evalEqKW(m1)
        ELSE IF isinstance(e, "Not") THEN __evalNot(m1, e)
        ELSE IF IsKW(e, "#NOT") THEN __evalNotKW(m1)
        ELSE Raise(m1, "IllFormed")

----------------------------------------------------------------------------
(* CmdπAut *)

\* the store key of a location: a dict hashes and compares True as 1.0
Key(l) == NumOf(l)

\* getLoc's effect: en[i] raises KeyError when i is not bound
getLocFails(m, i) == i \notin DOMAIN m.env

\* the location getLoc returns; read it only when getLoc succeeds
getLoc(m, i) == m.env[i]

\* st[l] = v; the locations of the model are numbers, which can be keys
updateStore(m, l, v) ==
    [m EXCEPT !.sto = [k \in (DOMAIN @) \cup {Key(l)} |-> IF k = Key(l) THEN v ELSE @[k]]]

\* faulty variant: the Assign step resolves the name when the term is popped
AssignResolvesEarly(m, c) ==
    IF getLocFails(m, opr(c, 0)[2]) THEN Raise(m, "KeyError")
    ELSE pushCnt(pushCnt(pushVal(m, PyStr(opr(c, 0)[2])), PyStr("#ASSIGN")), PyTerm(opr(c, 1)))

__evalAssign(m, c) ==
    LET i == opr(c, 0)
        e == opr(c, 1)
    IN  pushCnt(pushCnt(pushVal(m, PyStr(i[2])), PyStr("#ASSIGN")), PyTerm(e))

__evalAssignKW(m) ==
    LET v == topVal(m)
        m1 == popVal(m)
        i == topVal(m1)
        m2 == popVal(m1)
    IN  IF ~Ok(m2) THEN m2
        ELSE IF i[1] # "str" THEN Raise(m2, "TypeError")
        ELSE IF getLocFails(m2, i[2]) THEN Raise(m2, "KeyError")
        ELSE updateStore(m2, getLoc(m2, i[2]), v)

\* i is the identifier string, c.opr[0]
__evalId(m, i) ==
    IF getLocFails(m, i) THEN Raise(m, "KeyError")
    ELSE LET l == getLoc(m, i)
         IN  IF Key(l) \notin DOMAIN m.sto THEN Raise(m, "KeyError")
             ELSE pushVal(m, m.sto[Key(l)])

__evalLoop(m, c) ==
    LET be == opr(c, 0)
        bl == opr(c, 1)
    IN  pushCnt(pushCnt(pushVal(pushVal(m, PyTerm(Loop(be, bl))), PyTerm(bl)),
                        PyStr("#LOOP")), PyTerm(be))

\* faulty variant: a true condition runs the body and does not put the Loop back
LoopKWOnce(m) ==
    LET t == topVal(m)
        m1 == popVal(m)
    IN  IF ~Ok(m1) THEN m1
        ELSE IF Truthy(t, m1.heap)
        THEN LET c == topVal(m1)
                 m2 == popVal(m1)
                 m3 == popVal(m2)
             IN  IF Ok(m3) THEN pushCnt(m3, c) ELSE m3
        ELSE popVal(popVal(m1))

\* faulty variant: a true condition puts the body below the Loop term
LoopKWBodyBelow(m) ==
    LET t == topVal(m)
        m1 == popVal(m)
    IN  IF ~Ok(m1) THEN m1
        ELSE IF Truthy(t, m1.heap)
        THEN LET c == topVal(m1)
                 m2 == popVal(m1)
                 lo == topVal(m2)
                 m3 == popVal(m2)
             IN  IF Ok(m3) THEN pushCnt(pushCnt(m3, c), lo) ELSE m3
        ELSE popVal(popVal(m1))

__evalLoopKW(m) ==
    LET t == topVal(m)
        m1 == popVal(m)
    IN  IF ~Ok(m1) THEN m1
        ELSE IF Truthy(t, m1.heap)
        THEN LET c == topVal(m1)
                 m2 == popVal(m1)
                 lo == topVal(m2)
                 m3 == popVal(m2)
             IN  IF Ok(m3) THEN pushCnt(pushCnt(m3, lo), c) ELSE m3
        ELSE popVal(popVal(m1))

\* faulty variant: c1 is pushed first, so that c2 ends on top
CSeqSwapped(m, c) ==
    LET c1 == opr(c, 0)
        c2 == opr(c, 1)
    IN  pushCnt(pushCnt(m, PyTerm(c1)), PyTerm(c2))

__evalCSeq(m, c) ==
    LET c1 == opr(c, 0)
        c2 == opr(c, 1)
    IN  pushCnt(pushCnt(m, PyTerm(c2)), PyTerm(c1))

\* CmdπAut.eval
CmdEval(m) ==
    LET c == topCnt(m)
        m1 == popCnt(m)
    IN  IF ~Ok(m1) THEN m1
        ELSE IF isinstance(c, "Assign") THEN __evalAssign(m1, c)
        ELSE IF IsKW(c, "#ASSIGN") THEN __evalAssignKW(m1)
        ELSE IF isinstance(c, "Id") THEN __evalId(m1, opr(c, 0))
        ELSE IF isinstance(c, "Loop") THEN __evalLoop(m1, c)
        ELSE IF IsKW(c, "#LOOP") THEN __evalLoopKW(m1)
        ELSE IF isinstance(c, "CSeq") THEN __evalCSeq(m1, c)
        ELSE ExpEval(pushCnt(m1, c))

----------------------------------------------------------------------------
(* DecπAut *)

\* ls.append(l) on the ledger's list object
pushLoc(m, l) == [m EXCEPT !.heap[m.locs] = Append(@, l)]

__evalRef(m, e) ==
    LET ex == opr(e, 0)
    IN  pushCnt(pushCnt(m, PyStr("#REF")), PyTerm(ex))

SetMax(S) == CHOOSE x \in S : \A y \in S : y <= x

\* faulty variant: the new location is the number of ledger entries
NewLocByLedger(m) == Len(m.heap[m.locs])

__newLoc(m) ==
    IF DOMAIN m.sto # {} THEN SetMax(DOMAIN m.sto) + 1 ELSE 0

__evalRefKW(m) ==
    LET v == topVal(m)
        m1 == popVal(m)
        l == __newLoc(m1)
    IN  IF Ok(m1)
        THEN pushVal(pushLoc(updateStore(m1, PyNum(l), v), l), PyNum(l))
        ELSE m1

\* faulty variant: the Bind step does not save the identifier on the value stack
BindNoId(m, d) == pushCnt(pushCnt(m, PyStr("#BIND")), PyTerm(opr(d, 1)))

__evalBind(m, d) ==
    LET i == opr(d, 0)
        e == opr(d, 1)
    IN  pushCnt(pushCnt(pushVal(m, PyTerm(i)), PyStr("#BIND")), PyTerm(e))

__evalBindKW(m) ==
    LET l == topVal(m)
        m1 == popVal(m)
        i == topVal(m1)
        m2 == popVal(m1)
    IN  IF ~Ok(m2) THEN m2
        ELSE IF i[1] # "term" THEN Raise(m2, "TypeError")
        ELSE LET x == opr(i, 0)
             IN  pushVal(m2, PyDict([k \in {x} |-> l]))

__evalDSeq(m, ds) ==
    LET d1 == opr(ds, 0)
        d2 == opr(ds, 1)
    IN  pushCnt(pushCnt(pushCnt(m, PyStr("#DSEQ")), PyTerm(d2)), PyTerm(d1))

\* faulty variant: on a name bound twice the DSEQ step keeps the binding of d1
DSeqKWFirstWins(m) ==
    LET d2 == topVal(m)
        m1 == popVal(m)
        d1 == topVal(m1)
        m2 == popVal(m1)
    IN  IF ~Ok(m2) THEN m2
        ELSE IF d1[1] # "dict" \/ d2[1] # "dict" THEN Raise(m2, "TypeError")
        ELSE pushVal(m2, PyDict(DictUpdate(d2[2], d1[2])))

__evalDSeqKW(m) ==
    LET d2 == topVal(m)
        m1 == popVal(m)
        d1 == topVal(m1)
        m2 == popVal(m1)
    IN  IF ~Ok(m2) THEN m2
        ELSE IF d1[1] # "dict" \/ d2[1] # "dict" THEN Raise(m2, "TypeError")
        ELSE pushVal(m2, PyDict(DictUpdate(d1[2], d2[2])))

\* l.copy(): a new list object with the same elements
ListCopy(m, l) == [m EXCEPT !.heap = Append(@, @[l])]

__evalBlk(m, d) ==
    LET ld == opr(d, 0)
        c == opr(d, 1)
        l == m.locs
        m1 == ListCopy(m, l)
    IN  pushCnt(pushCnt(pushVal(pushVal(m1, PyList(Len(m1.heap))), PyTerm(c)),
                        PyStr("#BLKDEC")), PyTerm(ld))

\* faulty variant: the BLKDEC step installs the declared mapping alone
BlkDecKWDeclOnly(m) ==
    LET d == topVal(m)
        m1 == popVal(m)
        c == topVal(m1)
        m2 == popVal(m1)
    IN  IF ~Ok(m2) THEN m2
        ELSE IF d[1] # "dict" THEN Raise(pushVal(m2, PyList(m2.locs)), "TypeError")
        ELSE LET m3 == pushVal(pushVal(m2, PyList(m2.locs)), PyDict(m2.env))
                 m4 == [m3 EXCEPT !.env = d[2]]
             IN  pushCnt(pushCnt(m4, PyStr("#BLKCMD")), c)

__evalBlkDecKW(m) ==
    LET d == topVal(m)
        m1 == popVal(m)
        c == topVal(m1)
        m2 == popVal(m1)
        l == m2.locs
        en == m2.env
    IN  IF ~Ok(m2) THEN m2
        ELSE IF d[1] # "dict" THEN Raise(pushVal(m2, PyList(l)), "TypeError")
        ELSE LET ne == DictUpdate(en, d[2])
                 m3 == pushVal(pushVal(m2, PyList(l)), PyDict(en))
                 m4 == [m3 EXCEPT !.env = ne]
             IN  pushCnt(pushCnt(m4, PyStr("#BLKCMD")), c)

\* faulty variant: block exit keeps every store entry
StoKept(s, ls) == s

\* faulty variant: block exit removes the last location of the ledger alone
StoWithoutLast(s, ls) ==
    LET keep == {k \in DOMAIN s : ls = <<>> \/ ls[Len(ls)] # k}
    IN  [k \in keep |-> s[k]]

\* {k:v for k,v in s.items() if k not in ls}
StoWithout(s, ls) ==
    LET keep == {k \in DOMAIN s : \A j \in 1..Len(ls) : ls[j] # k}
    IN  [k \in keep |-> s[k]]

__evalBlkCmdKW(m) ==
    LET en == topVal(m)
        m1 == popVal(m)
        ls == topVal(m1)
        m2 == popVal(m1)
    IN  IF ~Ok(m2) THEN m2
        ELSE IF en[1] # "dict" THEN Raise(m2, "TypeError")
        ELSE LET m3 == [m2 EXCEPT !.env = en[2]]
             IN  IF ls[1] # "list" THEN Raise(m3, "TypeError")
                 ELSE LET m4 == [m3 EXCEPT !.sto = StoWithout(@, m3.heap[ls[2]])]
                          ols == topVal(m4)
                          m5 == popVal(m4)
                      IN  IF ~Ok(m5) THEN m5
                          ELSE IF ols[1] # "list" THEN Raise(m5, "TypeError")
                          ELSE [m5 EXCEPT !.locs = ols[2]]

\* DecπAut.eval
DecEval(m) ==
    LET d == topCnt(m)
        m1 == popCnt(m)
    IN  IF ~Ok(m1) THEN m1
        ELSE IF isinstance(d, "Bind") THEN __evalBind(m1, d)
        ELSE IF IsKW(d, "#BIND") THEN __evalBindKW(m1)
        ELSE IF isinstance(d, "DSeq") THEN __evalDSeq(m1, d)
        ELSE IF IsKW(d, "#DSEQ") THEN __evalDSeqKW(m1)
        ELSE IF isinstance(d, "Ref") THEN __evalRef(m1, d)
        ELSE IF IsKW(d, "#REF") THEN __evalRefKW(m1)
        ELSE IF isinstance(d, "Blk") THEN __evalBlk(m1, d)
        ELSE IF IsKW(d, "#BLKDEC") THEN __evalBlkDecKW(m1)
        ELSE IF IsKW(d, "#BLKCMD") THEN __evalBlkCmdKW(m1)
        ELSE CmdEval(pushCnt(m1, d))

----------------------------------------------------------------------------
(* The terms that are seeded and the states the machine is started in *)

Names == {"x", "y"}

Nums == {Num(n) : n \in 0..MaxNum}

\* the expression-only terms over a set of operands
ExpOver(S) ==
    S \cup {Sum(a, b) : a \in S, b \in S} \cup {Sub(a, b) : a \in S, b \in S}
      \cup {Mul(a, b) : a \in S, b \in S} \cup {Eq(a, b) : a \in S, b \in S}
      \cup {Not(a) : a \in S}

ExpProgs == ExpOver(ExpOver(Nums))

\* right-hand sides of the assignments
AssignExps ==
    {Num(0), Id("x"), Id("y"), Ref(Num(1)), Sub(Id("y"), Num(1)), Mul(Id("x"), Id("y"))}

Assigns == {Assign(Id(n), e) : n \in Names, e \in AssignExps}

FewAssigns == {Assign(Id(n), e) : n \in Names, e \in {Id("y"), Ref(Num(1)), Sub(Id("y"), Num(1))}}

\* y := y - 1 and the factorial body
Decrement == Assign(Id("y"), Sub(Id("y"), Num(1)))
FacBody == CSeq(Assign(Id("x"), Mul(Id("x"), Id("y"))), Decrement)
WhileY(body) == Loop(Not(Eq(Id("y"), Num(0))), body)

Binds == {Bind(Id(n), Ref(Num(k))) : n \in Names, k \in {1, 2}}

Decs == Binds \cup {DSeq(a, b) : a \in Binds, b \in Binds}

\* the factorial example of the source
fac == WhileY(FacBody)
dec == DSeq(Bind(Id("x"), Ref(Num(1))), Bind(Id("y"), Ref(Num(2))))
fac_blk == Blk(dec, fac)

\* commands run on a machine whose environment binds x and y
CmdProgs ==
    Assigns \cup {CSeq(a, b) : a \in Assigns, b \in Assigns}
      \cup {WhileY(Decrement), fac, Loop(Eq(Num(0), Num(0)), Assign(Id("x"), Num(0)))}

\* blocks, nested and in sequence, run on a fresh machine
BlkProgs ==
    {Blk(d, a) : d \in Decs, a \in Assigns}
      \cup {Blk(d, Blk(d2, a)) : d \in Binds, d2 \in Binds, a \in Assigns}
      \cup {Blk(d, CSeq(Blk(d2, a), a2)) : d \in Binds, d2 \in Binds, a \in FewAssigns, a2 \in FewAssigns}
      \cup {CSeq(Blk(d, a), Blk(d2, a2)) : d \in Binds, d2 \in Binds, a \in FewAssigns, a2 \in FewAssigns}
      \cup {Blk(DSeq(Bind(Id("x"), Ref(Num(1))), Bind(Id("y"), Ref(Num(n)))), c) :
               n \in 0..MaxNum, c \in {fac, WhileY(Blk(Bind(Id("x"), Ref(Num(1))), Decrement))}}

\* declarations and reference expressions seeded on their own, and Cns terms
DecProgs ==
    Decs \cup {Ref(Num(n)) : n \in 0..MaxNum}
      \cup {Sum(Ref(Num(1)), Ref(Num(2))), Cns(Num(1)), Blk(Bind(Id("x"), Cns(Num(1))), Decrement)}

\* a machine as DecπAut() builds it, seeded with one term
Fresh(t) == [prog |-> t, env |-> EmptyDict, sto |-> EmptyDict, ledger |-> <<>>]

\* a machine whose environment binds x to location 0 and y to location 1
Bound(t, a, b) ==
    [prog |-> t,
     env |-> [k \in Names |-> IF k = "x" THEN PyNum(0) ELSE PyNum(1)],
     sto |-> [k \in {0, 1} |-> IF k = 0 THEN PyNum(a) ELSE PyNum(b)],
     ledger |-> <<0, 1>>]

Scenarios ==
    {Fresh(t) : t \in ExpProgs \cup BlkProgs \cup DecProgs}
      \cup {Bound(t, 1, b) : t \in CmdProgs, b \in 0..MaxNum}

----------------------------------------------------------------------------
(* The driver: dc.pushCnt(term); while not dc.emptyCnt(): dc.eval() *)

NoShadow == [m |-> Machine(<<>>, <<>>, EmptyDict, EmptyDict, 1, <<<<>>>>, "none"), phase |-> "off"]

\* the machine of scenario s after pushCnt(s.prog)
Seeded(s) == Machine(<<>>, <<PyTerm(s.prog)>>, s.env, s.sto, 1, <<s.ledger>>, "none")

\* the state in which the driver loop is entered for scenario s
Start(s, sh) ==
    /\ val = <<>>
    /\ cnt = <<PyTerm(s.prog)>>
    /\ env = s.env
    /\ sto = s.sto
    /\ locs = 1
    /\ heap = <<s.ledger>>
    /\ err = "none"
    /\ prog = s.prog
    /\ env0 = s.env
    /\ sto0 = s.sto
    /\ loopIters = 0
    /\ blkHist = <<>>
    /\ shadow = sh

Init == \E s \in Scenarios : Start(s, NoShadow)

\* the machine, as a record
M == Machine(val, cnt, env, sto, locs, heap, err)

Install(m) ==
    /\ val' = m.val
    /\ cnt' = m.cnt
    /\ env' = m.env
    /\ sto' = m.sto
    /\ locs' = m.locs
    /\ heap' = m.heap
    /\ err' = m.err

\* the driver loop goes on: no exception has ended it, the control stack is not empty
Running == err = "none" /\ ~emptyCnt(M)

Top == topCnt(M)

\* one call of dc.eval()
eval == \E m \in {DecEval(M)} : Install(m)

History == <<prog, env0, sto0, shadow>>

----------------------------------------------------------------------------
(* One action per branch of the three eval methods *)

DoSum == Running /\ isinstance(Top, "Sum") /\ eval /\ UNCHANGED <<History, loopIters, blkHist>>

DoSumKW == Running /\ IsKW(Top, "#SUM") /\ eval /\ UNCHANGED <<History, loopIters, blkHist>>

DoSub == Running /\ isinstance(Top, "Sub") /\ eval /\ UNCHANGED <<History, loopIters, blkHist>>

DoSubKW == Running /\ IsKW(Top, "#SUB") /\ eval /\ UNCHANGED <<History, loopIters, blkHist>>

DoMul == Running /\ isinstance(Top, "Mul") /\ eval /\ UNCHANGED <<History, loopIters, blkHist>>

DoMulKW == Running /\ IsKW(Top, "#MUL") /\ eval /\ UNCHANGED <<History, loopIters, blkHist>>

DoNum == Running /\ isinstance(Top, "Num") /\ eval /\ UNCHANGED <<History, loopIters, blkHist>>

DoEq == Running /\ isinstance(Top, "Eq") /\ eval /\ UNCHANGED <<History, loopIters, blkHist>>

DoEqKW == Running /\ IsKW(Top, "#EQ") /\ eval /\ UNCHANGED <<History, loopIters, blkHist>>

DoNot == Running /\ isinstance(Top, "Not") /\ eval /\ UNCHANGED <<History, loopIters, blkHist>>

DoNotKW == Running /\ IsKW(Top, "#NOT") /\ eval /\ UNCHANGED <<History, loopIters, blkHist>>

DoAssign == Running /\ isinstance(Top, "Assign") /\ eval /\ UNCHANGED <<History, loopIters, blkHist>>

DoAssignKW == Running /\ IsKW(Top, "#ASSIGN") /\ eval /\ UNCHANGED <<History, loopIters, blkHist>>

DoId == Running /\ isinstance(Top, "Id") /\ eval /\ UNCHANGED <<History, loopIters, blkHist>>

DoLoop == Running /\ isinstance(Top, "Loop") /\ eval /\ UNCHANGED <<History, loopIters, blkHist>>

\* the LOOP step found the condition true: it has put the body back on the control stack
Iterates == err' = "none" /\ Len(cnt') > Len(cnt)

DoLoopKW ==
    /\ Running /\ IsKW(Top, "#LOOP") /\ eval
    /\ loopIters' = IF Iterates /\ loopIters < MaxIters THEN loopIters + 1 ELSE loopIters
    /\ UNCHANGED <<History, blkHist>>

DoCSeq == Running /\ isinstance(Top, "CSeq") /\ eval /\ UNCHANGED <<History, loopIters, blkHist>>

DoBind == Running /\ isinstance(Top, "Bind") /\ eval /\ UNCHANGED <<History, loopIters, blkHist>>

DoBindKW == Running /\ IsKW(Top, "#BIND") /\ eval /\ UNCHANGED <<History, loopIters, blkHist>>

DoDSeq == Running /\ isinstance(Top, "DSeq") /\ eval /\ UNCHANGED <<History, loopIters, blkHist>>

DoDSeqKW == Running /\ IsKW(Top, "#DSEQ") /\ eval /\ UNCHANGED <<History, loopIters, blkHist>>

DoRef == Running /\ isinstance(Top, "Ref") /\ eval /\ UNCHANGED <<History, loopIters, blkHist>>

\* the value stack v with every list read through the heap h, as printing it shows it
Contents(v, h) == [i \in 1..Len(v) |-> IF v[i][1] = "list" THEN <<"list", h[v[i][2]]>> ELSE v[i]]

\* the frames of blkHist: the environment and the ledger when the Blk was popped, the
\* locations allocated while its declarations were evaluated, and whether they still are;
\* the ledger when its BLKDEC marker was processed, the locations allocated since, the
\* names its declarations bind, and the value stack when the Blk was popped
Frame(e, l) ==
    [env |-> e, ledger |-> l, alloc |-> {}, phase |-> "dec", post |-> <<>>, body |-> {},
     names |-> {}, vals |-> Contents(val, heap)]

\* the names of the mapping on top of the value stack
Declared == IF val # <<>> /\ val[Len(val)][1] = "dict" THEN DOMAIN val[Len(val)][2] ELSE {}

DoRefKW ==
    /\ Running /\ IsKW(Top, "#REF") /\ eval
    /\ blkHist' =
         IF err' = "none" /\ blkHist # <<>> /\ blkHist[Len(blkHist)].phase = "dec"
         THEN [blkHist EXCEPT ![Len(blkHist)].alloc = @ \cup {NumOf(val'[Len(val')])}]
         ELSE IF err' = "none" /\ blkHist # <<>>
         THEN [blkHist EXCEPT ![Len(blkHist)].body = @ \cup {NumOf(val'[Len(val')])}]
         ELSE blkHist
    /\ UNCHANGED <<History, loopIters>>

DoBlk ==
    /\ Running /\ isinstance(Top, "Blk") /\ eval
    /\ blkHist' = Append(blkHist, Frame(env, heap[locs]))
    /\ UNCHANGED <<History, loopIters>>

DoBlkDecKW ==
    /\ Running /\ IsKW(Top, "#BLKDEC") /\ eval
    /\ blkHist' =
         IF blkHist # <<>>
         THEN [blkHist EXCEPT ![Len(blkHist)].phase = "cmd", ![Len(blkHist)].post = heap[locs],
                              ![Len(blkHist)].names = Declared]
         ELSE blkHist
    /\ UNCHANGED <<History, loopIters>>

DoBlkCmdKW ==
    /\ Running /\ IsKW(Top, "#BLKCMD") /\ eval
    /\ blkHist' = IF blkHist # <<>> THEN SubSeq(blkHist, 1, Len(blkHist) - 1) ELSE blkHist
    /\ UNCHANGED <<History, loopIters>>

Classes ==
    {"Num", "Sum", "Sub", "Mul", "Eq", "Not", "Id", "Assign", "Loop", "CSeq",
     "Bind", "DSeq", "Ref", "Blk"}

Markers ==
    {"#SUM", "#SUB", "#MUL", "#EQ", "#NOT", "#ASSIGN", "#LOOP",
     "#BIND", "#DSEQ", "#REF", "#BLKDEC", "#BLKCMD"}

\* the popped entry matches no branch of the three eval methods
Unmatched(d) ==
    /\ ~(d[1] = "term" /\ d[2][1] \in Classes)
    /\ ~(d[1] = "str" /\ d[2] \in Markers)

\* the else branch of ExpπAut.eval: raise Exception("Ill formed:", e)
DoIllFormed == Running /\ Unmatched(Top) /\ eval /\ UNCHANGED <<History, loopIters, blkHist>>

Next ==
    \/ DoSum \/ DoSumKW \/ DoSub \/ DoSubKW \/ DoMul \/ DoMulKW \/ DoNum
    \/ DoEq \/ DoEqKW \/ DoNot \/ DoNotKW
    \/ DoAssign \/ DoAssignKW \/ DoId \/ DoLoop \/ DoLoopKW \/ DoCSeq
    \/ DoBind \/ DoBindKW \/ DoDSeq \/ DoDSeqKW \/ DoRef \/ DoRefKW
    \/ DoBlk \/ DoBlkDecKW \/ DoBlkCmdKW
    \/ DoIllFormed

Spec == Init /\ [][Next]_vars

\* the runs whose termination is checked: the expression-only terms with a number for
\* one operand at least, the loops, the factorial block, an ill-formed run
FairExpProgs == {t \in ExpProgs : Len(t) = 3 => (t[2] \in Nums \/ t[3] \in Nums)}

FairScenarios ==
    {Fresh(t) : t \in FairExpProgs \cup {fac_blk, Cns(Num(1))}}
      \cup {Bound(t, 1, b) : t \in {WhileY(Decrement), fac}, b \in 0..MaxNum}

FairInit == \E s \in FairScenarios : Start(s, NoShadow)

\* the driver loop calls eval() again as long as the control stack is not empty
FairSpec == FairInit /\ [][Next]_vars /\ WF_vars(Next)

Done == err = "none" /\ emptyCnt(M)

----------------------------------------------------------------------------
(* CSeq(c1, c2) beside c1 followed by c2: the machine runs CSeq(c1, c2) while a second *)
(* machine, started in the same state, runs c1 to completion and is then seeded with c2 *)

Blks == {Blk(d, a) : d \in Binds, a \in FewAssigns}

SeqFirst == Assigns \cup Blks \cup {WhileY(Decrement)}

SeqSecond == Assigns \cup Blks \cup {WhileY(Assign(Id("y"), Num(0)))}

SeqScenarios ==
    {Bound(CSeq(c1, c2), 1, b) : c1 \in SeqFirst, c2 \in SeqSecond, b \in 0..MaxNum}
      \cup {Fresh(CSeq(c1, c2)) : c1 \in Blks, c2 \in Blks}

SeqInit ==
    \E s \in SeqScenarios :
        Start(s, [m |-> Seeded([s EXCEPT !.prog = s.prog[2]]), phase |-> "start"])

\* the first machine pops CSeq(c1, c2)
SeqSplit ==
    /\ shadow.phase = "start" /\ Running
    /\ eval
    /\ shadow' = [shadow EXCEPT !.phase = "c1"]
    /\ UNCHANGED <<prog, env0, sto0, loopIters, blkHist>>

\* both machines take a step
SeqBoth ==
    /\ shadow.phase \in {"c1", "c2"} /\ Running
    /\ Ok(shadow.m) /\ ~emptyCnt(shadow.m)
    /\ eval
    /\ shadow' = [shadow EXCEPT !.m = DecEval(@)]
    /\ UNCHANGED <<prog, env0, sto0, loopIters, blkHist>>

\* the second machine has completed c1 and is seeded with c2
SeqSeed ==
    /\ shadow.phase = "c1"
    /\ Ok(shadow.m) /\ emptyCnt(shadow.m)
    /\ shadow' = [m |-> pushCnt(shadow.m, PyTerm(prog[3])), phase |-> "c2"]
    /\ UNCHANGED <<val, cnt, env, sto, locs, heap, err, prog, env0, sto0, loopIters, blkHist>>

SeqNext == SeqSplit \/ SeqBoth \/ SeqSeed

SeqSpec == SeqInit /\ [][SeqNext]_vars

----------------------------------------------------------------------------
(* What a term denotes *)

RECURSIVE IsExpOnly(_)
\* the term is built from Num, Sum, Sub, Mul, Eq and Not alone
IsExpOnly(t) ==
    IF t[1] = "Num" THEN TRUE
    ELSE IF t[1] \in {"Sum", "Sub", "Mul", "Eq"} THEN IsExpOnly(t[2]) /\ IsExpOnly(t[3])
    ELSE IF t[1] = "Not" THEN IsExpOnly(t[2])
    ELSE FALSE

RECURSIVE Den(_)
\* the value of an expression-only term
Den(t) ==
    IF t[1] = "Num" THEN PyNum(t[2])
    ELSE IF t[1] = "Sum" THEN PyNum(NumOf(Den(t[2])) + NumOf(Den(t[3])))
    ELSE IF t[1] = "Sub" THEN PyNum(NumOf(Den(t[2])) - NumOf(Den(t[3])))
    ELSE IF t[1] = "Mul" THEN PyNum(NumOf(Den(t[2])) * NumOf(Den(t[3])))
    ELSE IF t[1] = "Eq" THEN PyBool(NumOf(Den(t[2])) = NumOf(Den(t[3])))
    ELSE IF t[1] = "Not" THEN PyBool(~Truthy(Den(t[2]), <<>>))
    ELSE PyNum(0)

\* the term is built from Num, Sum, Sub and Mul alone
RECURSIVE IsArith(_)
IsArith(t) ==
    IF t[1] = "Num" THEN TRUE
    ELSE IF t[1] \in {"Sum", "Sub", "Mul"} THEN IsArith(t[2]) /\ IsArith(t[3])
    ELSE FALSE

\* the program has reached block exit: only the BLKCMD marker is left
AtBlkExit == err = "none" /\ cnt = <<PyStr("#BLKCMD")>>

HasKey(f, k) == k \in DOMAIN f

----------------------------------------------------------------------------
(* C1 *)

\* C1 as stated: when the factorial program has run to completion, the store holds 2.0
\* at x's location (0) and 0.0 at y's location (1).
C1_FacStoreAtCompletion ==
    (prog = fac_blk /\ Done) =>
        /\ HasKey(sto, 0) /\ sto[0] = PyNum(2)
        /\ HasKey(sto, 1) /\ sto[1] = PyNum(0)

\* C1 amended: when the loop of the factorial program has exited and only the BLKCMD
\* marker is left on the control stack, x is bound to location 0 and y to location 1
\* and the store holds 2.0 at 0 and 0.0 at 1; the BLKCMD step removes both entries, so
\* at completion the store, the environment and the ledger are empty.
C1_FacStoreBeforeExit ==
    prog = fac_blk =>
        /\ err = "none"
        /\ AtBlkExit =>
              /\ env = [k \in Names |-> IF k = "x" THEN PyNum(0) ELSE PyNum(1)]
              /\ sto = [k \in {0, 1} |-> IF k = 0 THEN PyNum(2) ELSE PyNum(0)]
        /\ Done => sto = EmptyDict /\ env = EmptyDict /\ heap[locs] = <<>> /\ val = <<>>

C1_Witness == prog = fac_blk /\ AtBlkExit /\ HasKey(sto, 0) /\ sto[0] = PyNum(2) /\ loopIters = 2

----------------------------------------------------------------------------
(* C2 *)

\* the step that processes a BLKCMD marker, for a Blk whose frame is f
BlkExit(f) ==
    /\ env' = f.env
    /\ heap'[locs'] = f.ledger
    /\ f.alloc \cap DOMAIN sto' = {}

\* C2: the step that processes the BLKCMD marker of a Blk, at any nesting depth, leaves
\* the environment and the ledger as they were when the Blk term was popped, and leaves
\* no location that was allocated for the block's declarations in the store.
C2_BlkExitRestores ==
    [][(Running /\ IsKW(Top, "#BLKCMD") /\ blkHist # <<>> /\ err' = "none")
          => BlkExit(blkHist[Len(blkHist)])]_vars

\* a block nested in the body of a block has completed, and the outer block too
C2_Witness ==
    /\ Done /\ prog[1] = "Blk" /\ prog[3][1] = "CSeq" /\ prog[3][2][1] = "Blk"
    /\ blkHist = <<>>

----------------------------------------------------------------------------
(* C3 *)

ArithOf(op, a, b) ==
    IF op = "Sum" THEN a + b ELSE IF op = "Sub" THEN a - b ELSE a * b

\* C3: when Sum(e1, e2), Sub(e1, e2) or Mul(e1, e2), with e1 and e2 numbers or nested
\* Sum/Sub/Mul terms of values a and b, has been driven to completion, the value stack
\* holds a+b, a-b (never b-a) or a*b.
C3_Arithmetic ==
    (Done /\ IsArith(prog) /\ prog[1] # "Num") =>
        val = <<PyNum(ArithOf(prog[1], NumOf(Den(prog[2])), NumOf(Den(prog[3]))))>>

\* a subtraction of nested operands whose value differs from that of the swapped one
C3_Witness ==
    /\ Done /\ IsArith(prog) /\ prog[1] = "Sub"
    /\ prog[2][1] = "Sub" /\ prog[3][1] = "Mul"
    /\ NumOf(val[1]) # NumOf(Den(prog[3])) - NumOf(Den(prog[2]))

----------------------------------------------------------------------------
(* C4 *)

C4_Scenario ==
    /\ prog = WhileY(Decrement)
    /\ HasKey(env0, "y") /\ env0["y"] = PyNum(1)
    /\ HasKey(sto0, 1) /\ sto0[1] = PyNum(2)

\* C4: with y bound to a location that holds 2.0, Loop(Not(Eq(Id y, Num 0)), y := y - 1)
\* reaches an empty control stack, after exactly 2 executions of the body and with 0.0
\* at y's location.
C4_LoopTwice ==
    C4_Scenario => <>(Done /\ loopIters = 2 /\ HasKey(sto, 1) /\ sto[1] = PyNum(0))

C4_Witness == C4_Scenario /\ Done /\ loopIters = 2 /\ HasKey(sto, 1) /\ sto[1] = PyNum(0)

----------------------------------------------------------------------------
(* C5 *)

\* C5: while the second machine runs c1, the first machine is in the same state but
\* for c2, which lies untouched at the bottom of its control stack; once the second
\* machine has been seeded with c2 the two machines are in the same state, and so they
\* end with the same store, environment and ledger.
C5_SeqLaw ==
    /\ (shadow.phase = "c1" /\ Ok(shadow.m)) =>
          M = [shadow.m EXCEPT !.cnt = <<PyTerm(prog[3])>> \o @]
    /\ (shadow.phase = "c2" /\ Ok(shadow.m)) => M = shadow.m

\* both commands have changed the store and the run is complete
C5_Witness ==
    /\ shadow.phase = "c2" /\ Done /\ emptyCnt(shadow.m)
    /\ prog[2] = Assign(Id("x"), Ref(Num(1)))
    /\ prog[3] = Assign(Id("y"), Id("x"))
    /\ HasKey(sto, 1) /\ sto[1] = PyNum(2)

----------------------------------------------------------------------------
(* C6 *)

\* C6: no run that is seeded with a well-formed term reaches the IllFormedControl
\* error, which is raised only for an entry that is neither a term variant nor a marker.
C6_NoIllFormed == err # "IllFormed"

----------------------------------------------------------------------------
(* C7 *)

\* C7: an expression-only term seeded on an empty machine eventually leaves the
\* control stack empty, with exactly one value on the value stack, the term's value.
C7_ExpTerminates ==
    IsExpOnly(prog) => <>(Done /\ val = <<Den(prog)>>)

C7_Witness ==
    /\ Done /\ IsExpOnly(prog) /\ prog[1] = "Mul" /\ prog[2][1] = "Not"
    /\ val = <<Den(prog)>>

----------------------------------------------------------------------------
(* C8 *)

SameKind(v, w) == v[1] = w[1]

----------------------------------------------------------------------------
(* C10 *)

NoDup(q) == \A i, j \in 1..Len(q) : q[i] = q[j] => i = j

InSeq(x, q) == \E i \in 1..Len(q) : q[i] = x

\* C10: the ledger never holds a location twice, and the location that a REF step
\* allocates is neither in the ledger nor bound to a name of the environment.
C10_LocationsUnique ==
    [][(Running /\ IsKW(Top, "#REF") /\ err' = "none") =>
          LET l == NumOf(val'[Len(val')])
          IN  /\ ~InSeq(l, heap[locs])
              /\ \A n \in DOMAIN env : NumOf(env[n]) # l
              /\ NoDup(heap'[locs'])]_vars

----------------------------------------------------------------------------
(* C11 *)

\* the list that the BLKCMD step is about to pop as its store-cleanup set
CleanupList == heap[val[Len(val) - 1][2]]

\* C11: the list that a BLKCMD step pops and removes from the store is the ledger as it
\* was when the matching BLKDEC marker was processed, and a location allocated since,
\* in the body of the block, keeps its store entry across the step.
C11_CleanupIsPostDecLedger ==
    [][(Running /\ IsKW(Top, "#BLKCMD") /\ blkHist # <<>> /\ err' = "none") =>
          LET f == blkHist[Len(blkHist)]
          IN  /\ CleanupList = f.post
              /\ \A l \in f.body : l \in DOMAIN sto => l \in DOMAIN sto']_vars

----------------------------------------------------------------------------
(* C12 *)

\* C12: a BLKCMD step removes from the store every location of the list it pops and
\* leaves the other entries as they were; when the block is nested in the body of an
\* outer block, the locations allocated by the outer declarations are removed as well,
\* while the names the outer block declared stay bound in the restored environment; an
\* Id step on a name whose location has no store entry fails with KeyError.
C12_ExitRemovesOuterLocations ==
    [][/\ (Running /\ IsKW(Top, "#BLKCMD") /\ blkHist # <<>> /\ err' = "none") =>
            /\ \A l \in DOMAIN sto' : ~InSeq(l, CleanupList) /\ HasKey(sto, l) /\ sto'[l] = sto[l]
            /\ \A l \in DOMAIN sto : ~InSeq(l, CleanupList) => HasKey(sto', l)
            /\ (Len(blkHist) >= 2 /\ blkHist[Len(blkHist) - 1].phase = "cmd") =>
                  LET o == blkHist[Len(blkHist) - 1]
                  IN  /\ o.alloc \cap DOMAIN sto' = {}
                      /\ \A n \in o.names : HasKey(env', n)
       /\ (Running /\ isinstance(Top, "Id") /\ HasKey(env, Top[2][2])
             /\ ~HasKey(sto, NumOf(env[Top[2][2]]))) => err' = "KeyError"]_vars

\* a nested block has completed and a read of a name of the outer block, still bound to
\* the location its declaration allocated, has found no store entry
C12_Witness ==
    /\ err = "KeyError" /\ Len(blkHist) = 1 /\ blkHist[1].phase = "cmd"
    /\ prog[1] = "Blk" /\ prog[3][1] = "CSeq" /\ prog[3][2][1] = "Blk"
    /\ \E n \in blkHist[1].names :
          /\ HasKey(env, n) /\ NumOf(env[n]) \in blkHist[1].alloc
          /\ ~HasKey(sto, NumOf(env[n]))
          /\ cnt # <<>> /\ cnt[Len(cnt)] = PyStr("#ASSIGN")

----------------------------------------------------------------------------
(* C13 *)

RECURSIVE DeclNames(_)
\* the names that a declaration binds
DeclNames(d) ==
    IF d[1] = "Bind" THEN {d[2][2]}
    ELSE IF d[1] = "DSeq" THEN DeclNames(d[2]) \cup DeclNames(d[3])
    ELSE {}

RECURSIVE Closed(_, _)
\* every identifier of term t is bound, by the names S or by an enclosing declaration
Closed(t, S) ==
    IF t[1] = "Num" THEN TRUE
    ELSE IF t[1] = "Id" THEN t[2] \in S
    ELSE IF t[1] \in {"Sum", "Sub", "Mul", "Eq", "Loop", "CSeq", "DSeq"}
         THEN Closed(t[2], S) /\ Closed(t[3], S)
    ELSE IF t[1] \in {"Not", "Ref"} THEN Closed(t[2], S)
    ELSE IF t[1] = "Assign" THEN t[2][2] \in S /\ Closed(t[3], S)
    ELSE IF t[1] = "Bind" THEN Closed(t[3], S)
    ELSE IF t[1] = "Blk" THEN Closed(t[2], S) /\ Closed(t[3], S \cup DeclNames(t[2]))
    ELSE FALSE

\* the i-th entry of the value stack from the top is of kind k
Holds(i, k) == Len(val) >= i /\ val[Len(val) + 1 - i][1] \in k

Scalars == {"num", "bool"}

\* the value stack holds what marker kw pops, of the expected kinds, in the expected order
Expects(kw) ==
    IF kw \in {"#SUM", "#SUB", "#MUL", "#EQ"} THEN Holds(1, Scalars) /\ Holds(2, Scalars)
    ELSE IF kw \in {"#NOT", "#REF"} THEN Holds(1, Scalars)
    ELSE IF kw = "#ASSIGN" THEN Holds(1, Scalars) /\ Holds(2, {"str"})
    ELSE IF kw = "#LOOP"
         THEN /\ Holds(1, {"bool"}) /\ Holds(2, {"term"}) /\ Holds(3, {"term"})
              /\ val[Len(val) - 2][2][1] = "Loop"
              /\ val[Len(val) - 1][2] = val[Len(val) - 2][2][3]
    ELSE IF kw = "#BIND"
         THEN Holds(1, Scalars) /\ Holds(2, {"term"}) /\ val[Len(val) - 1][2][1] = "Id"
    ELSE IF kw = "#DSEQ" THEN Holds(1, {"dict"}) /\ Holds(2, {"dict"})
    ELSE IF kw = "#BLKDEC" THEN Holds(1, {"dict"}) /\ Holds(2, {"term"}) /\ Holds(3, {"list"})
    ELSE IF kw = "#BLKCMD" THEN Holds(1, {"dict"}) /\ Holds(2, {"list"}) /\ Holds(3, {"list"})
    ELSE FALSE

MarkerOnTop == cnt # <<>> /\ Top[1] = "str"

----------------------------------------------------------------------------
(* C14 *)

\* the marker of a binary expression term
MarkerOf(cls) ==
    IF cls = "Sum" THEN "#SUM" ELSE IF cls = "Sub" THEN "#SUB"
    ELSE IF cls = "Mul" THEN "#MUL" ELSE "#EQ"

\* C14: the step that pops Sum/Sub/Mul/Eq(e1, e2) puts the marker, then e1, then e2 on
\* the control stack, so that e2 is on top and is evaluated first, and touches nothing
\* else; when Sum(Ref(Num 1), Ref(Num 2)) has completed, the location of the second
\* operand is the lower one: the store holds 2.0 at 0 and 1.0 at 1, the ledger is
\* <<0, 1>> and the value is the sum of the two locations.
C14_RightToLeft ==
    [][/\ (Running /\ Top[1] = "term" /\ Top[2][1] \in {"Sum", "Sub", "Mul", "Eq"}) =>
            /\ cnt' = SubSeq(cnt, 1, Len(cnt) - 1)
                         \o <<PyStr(MarkerOf(Top[2][1])), PyTerm(Top[2][2]), PyTerm(Top[2][3])>>
            /\ UNCHANGED <<val, env, sto, locs, heap, err>>
       /\ (prog = Sum(Ref(Num(1)), Ref(Num(2))) /\ Done') =>
            /\ sto' = [k \in {0, 1} |-> IF k = 0 THEN PyNum(2) ELSE PyNum(1)]
            /\ heap'[locs'] = <<0, 1>>
            /\ val' = <<PyNum(1)>>]_vars

\* both references of Sum(Ref(Num 1), Ref(Num 2)) have been allocated and the sum made
C14_Witness ==
    /\ prog = Sum(Ref(Num(1)), Ref(Num(2))) /\ Done
    /\ HasKey(sto, 0) /\ sto[0] = PyNum(2) /\ HasKey(sto, 1) /\ sto[1] = PyNum(1)

----------------------------------------------------------------------------
(* C15 *)

\* a loop whose condition is true on every test
Forever == Loop(Eq(Num(0), Num(0)), Assign(Id("x"), Num(0)))

\* the control stack without its top entry
RestCnt == SubSeq(cnt, 1, Len(cnt) - 1)

\* C15: a LOOP step that pops a true condition puts the saved Loop term and then the
\* body on the control stack, a LOOP step that pops a false one puts nothing on it, and
\* both take the three saved entries off the value stack and change nothing else; a run
\* seeded with a Loop reaches the empty control stack only by a LOOP step whose condition
\* is false; a Loop whose condition is true on every test never reaches it.
C15_LoopExit ==
    [][/\ (Running /\ IsKW(Top, "#LOOP") /\ Expects("#LOOP")) =>
            /\ cnt' = IF Truthy(val[Len(val)], heap)
                       THEN RestCnt \o <<val[Len(val) - 2], val[Len(val) - 1]>>
                       ELSE RestCnt
            /\ val' = SubSeq(val, 1, Len(val) - 3)
            /\ UNCHANGED <<env, sto, locs, heap, err>>
       /\ (prog[1] = "Loop" /\ Running /\ Done') =>
            IsKW(Top, "#LOOP") /\ ~Truthy(val[Len(val)], heap)
       /\ prog = Forever => ~Done']_vars

\* the loop whose condition is always true is at its test again after MaxIters runs of
\* the body
C15_Witness ==
    /\ prog = Forever /\ Running /\ IsKW(Top, "#LOOP") /\ loopIters = MaxIters
    /\ Expects("#LOOP") /\ Truthy(val[Len(val)], heap)

----------------------------------------------------------------------------
(* C16 *)

IsCmd(t) == t[1] \in {"Assign", "Loop", "CSeq", "Blk"}

\* C16: a command seeded on a machine with an empty value stack leaves it empty when it
\* completes; a Blk, at any nesting depth, leaves the value stack as it was when the Blk
\* was popped, entry by entry; a Loop whose condition is false on the first test changes
\* neither store, environment nor ledger and runs its body not once.
C16_NoResidualValue ==
    [][/\ (IsCmd(prog) /\ Done') => val' = <<>>
       /\ (Running /\ IsKW(Top, "#BLKCMD") /\ blkHist # <<>> /\ err' = "none") =>
            Contents(val', heap') = blkHist[Len(blkHist)].vals
       /\ (prog = WhileY(Decrement) /\ HasKey(sto0, 1) /\ sto0[1] = PyNum(0) /\ Done') =>
            /\ loopIters' = 0 /\ sto' = sto0 /\ env' = env0
            /\ heap'[locs'] = <<0, 1>>]_vars

----------------------------------------------------------------------------
(* C17 *)

\* 0 for the empty store, else its largest key plus one
NextKey(f) ==
    IF DOMAIN f = {} THEN 0
    ELSE (CHOOSE x \in DOMAIN f : \A y \in DOMAIN f : y <= x) + 1

\* C17: the step that pops Ref(e) puts the REF marker and then e on the control stack
\* and changes nothing else; the REF step pops the value v of e, allocates location l,
\* which is 0 for the empty store and else the largest key plus one and is not a key of
\* the store, sets store[l] to v and leaves every other entry, appends l to the ledger,
\* pushes l on the value stack and leaves the environment unchanged.
C17_RefFrame ==
    [][/\ (Running /\ isinstance(Top, "Ref")) =>
            /\ cnt' = RestCnt \o <<PyStr("#REF"), PyTerm(Top[2][2])>>
            /\ UNCHANGED <<val, env, sto, locs, heap, err>>
       /\ (Running /\ IsKW(Top, "#REF") /\ Expects("#REF")) =>
            LET l == NextKey(sto)
                v == val[Len(val)]
            IN  /\ ~HasKey(sto, l)
                /\ DOMAIN sto' = DOMAIN sto \cup {l}
                /\ sto'[l] = v
                /\ \A k \in DOMAIN sto : sto'[k] = sto[k]
                /\ locs' = locs
                /\ heap' = [heap EXCEPT ![locs] = Append(@, l)]
                /\ val' = SubSeq(val, 1, Len(val) - 1) \o <<PyNum(l)>>
                /\ cnt' = RestCnt
                /\ env' = env /\ err' = "none"]_vars

\* x := Ref(Num 1) has completed on a store that held locations 0 and 1
C17_Witness ==
    /\ prog = Assign(Id("x"), Ref(Num(1))) /\ Done /\ DOMAIN sto0 = {0, 1}
    /\ DOMAIN sto = {0, 1, 2} /\ sto[2] = PyNum(1) /\ sto[0] = PyNum(2)
    /\ heap[locs] = <<0, 1, 2>>

----------------------------------------------------------------------------
(* C18 *)

RECURSIVE NoRef(_)
\* no Ref occurs in expression e
NoRef(e) ==
    IF e[1] \in {"Num", "Id"} THEN TRUE
    ELSE IF e[1] \in {"Sum", "Sub", "Mul", "Eq"} THEN NoRef(e[2]) /\ NoRef(e[3])
    ELSE IF e[1] = "Not" THEN NoRef(e[2])
    ELSE FALSE

\* an Assign seeded on the machine that binds x and y has completed, and but for the
\* entry of the assigned name the store is as it was, and so are environment and ledger
AssignFrame ==
    /\ DOMAIN sto = DOMAIN sto0
    /\ \A k \in DOMAIN sto0 : k # NumOf(env0[prog[2][2]]) => sto[k] = sto0[k]
    /\ env = env0
    /\ heap[locs] = <<0, 1>>

\* C18 as stated: when Assign(Id(name), e) has been evaluated to completion, every store
\* entry but that of the name is unchanged, and so are the environment and the ledger.
C18_AssignFrameAlways ==
    (prog[1] = "Assign" /\ Done) => AssignFrame

\* C18 amended: the step that pops Assign(Id(name), e) puts the name on the value stack
\* and the ASSIGN marker and e on the control stack, without resolving the name; the
\* ASSIGN step pops v and the name, resolves the name in the environment (KeyError when
\* it is not bound) and sets store[env[name]] to v, leaving every other store entry, the
\* environment and the ledger unchanged; when no Ref occurs in e, the whole evaluation
\* changes no other store entry, nor the environment, nor the ledger.
C18_AssignFrame ==
    [][/\ (Running /\ isinstance(Top, "Assign")) =>
            /\ cnt' = RestCnt \o <<PyStr("#ASSIGN"), PyTerm(Top[2][3])>>
            /\ val' = Append(val, PyStr(Top[2][2][2]))
            /\ UNCHANGED <<env, sto, locs, heap, err>>
       /\ (Running /\ IsKW(Top, "#ASSIGN") /\ Expects("#ASSIGN")) =>
            LET v == val[Len(val)]
                n == val[Len(val) - 1][2]
            IN  IF HasKey(env, n)
                THEN /\ DOMAIN sto' = DOMAIN sto \cup {NumOf(env[n])}
                     /\ sto'[NumOf(env[n])] = v
                     /\ \A k \in DOMAIN sto : k # NumOf(env[n]) => sto'[k] = sto[k]
                     /\ val' = SubSeq(val, 1, Len(val) - 2)
                     /\ cnt' = RestCnt
                     /\ UNCHANGED <<env, locs, heap, err>>
                ELSE err' = "KeyError" /\ UNCHANGED <<env, sto, locs, heap>>
       /\ (prog[1] = "Assign" /\ NoRef(prog[3]) /\ Done') => AssignFrame']_vars

\* x := x * y has completed with y = 2: the store holds 2.0 for x, and y is untouched
C18_Witness ==
    /\ prog = Assign(Id("x"), Mul(Id("x"), Id("y"))) /\ Done
    /\ sto0 = [k \in {0, 1} |-> IF k = 0 THEN PyNum(1) ELSE PyNum(2)]
    /\ sto = [k \in {0, 1} |-> PyNum(2)]

----------------------------------------------------------------------------
(* C19 *)

\* mapping f overridden by mapping g
Override(f, g) == [n \in DOMAIN f \cup DOMAIN g |-> IF n \in DOMAIN g THEN g[n] ELSE f[n]]

\* C19: a step that is neither a BLKDEC nor a BLKCMD step leaves the environment
\* unchanged; a BLKDEC step installs the old environment overridden by the declared
\* mapping and saves the old environment, as it is, on the value stack; a BLKCMD step
\* installs the environment saved on top of the value stack, which is the one that was
\* installed when the Blk was popped.
C19_EnvFrame ==
    [][/\ (Running /\ ~IsKW(Top, "#BLKDEC") /\ ~IsKW(Top, "#BLKCMD")) => env' = env
       /\ (Running /\ IsKW(Top, "#BLKDEC") /\ Expects("#BLKDEC")) =>
            /\ env' = Override(env, val[Len(val)][2])
            /\ val'[Len(val')] = PyDict(env)
            /\ blkHist # <<>> => env = blkHist[Len(blkHist)].env
       /\ (Running /\ IsKW(Top, "#BLKCMD") /\ Expects("#BLKCMD")) =>
            /\ env' = val[Len(val)][2]
            /\ blkHist # <<>> => val[Len(val)] = PyDict(blkHist[Len(blkHist)].env)]_vars

\* the body of a block that declares x runs inside a block that declares x and y: x is
\* bound to the inner location, y to the outer one, and the outer binding of x is saved
C19_Witness ==
    /\ err = "none" /\ Len(blkHist) = 2 /\ blkHist[2].phase = "cmd"
    /\ DOMAIN env = {"x", "y"} /\ blkHist[2].names = {"x"}
    /\ HasKey(blkHist[2].env, "x") /\ blkHist[2].env["x"] # env["x"]
    /\ blkHist[2].env["y"] = env["y"]
    /\ Holds(1, {"dict"}) /\ val[Len(val)] = PyDict(blkHist[2].env)

----------------------------------------------------------------------------
(* C20 *)

\* the mapping that binds name n to location l alone
Single(n, l) == [k \in {n} |-> PyNum(l)]

\* C20: the step that pops DSeq(d1, d2) puts the DSEQ marker, then d2, then d1 on the
\* control stack, so that d1 is on top and is evaluated first; the DSEQ step replaces
\* the two mappings on top of the value stack by the mapping of d1 overridden by that of
\* d2; when DSeq(Bind(n1, Ref(Num k1)), Bind(n2, Ref(Num k2))) has completed on a fresh
\* machine, k1 is at location 0 and k2 at location 1 and the one mapping on the value
\* stack binds n1 to 0 and n2 to 1, n2's binding winning when the names are the same.
C20_DSeqOrder ==
    [][/\ (Running /\ isinstance(Top, "DSeq")) =>
            /\ cnt' = RestCnt \o <<PyStr("#DSEQ"), PyTerm(Top[2][3]), PyTerm(Top[2][2])>>
            /\ UNCHANGED <<val, env, sto, locs, heap, err>>
       /\ (Running /\ IsKW(Top, "#DSEQ") /\ Expects("#DSEQ")) =>
            /\ val' = SubSeq(val, 1, Len(val) - 2)
                         \o <<PyDict(Override(val[Len(val) - 1][2], val[Len(val)][2]))>>
            /\ cnt' = RestCnt
            /\ UNCHANGED <<env, sto, locs, heap, err>>
       /\ (prog[1] = "DSeq" /\ prog[2][1] = "Bind" /\ prog[3][1] = "Bind" /\ Done') =>
            /\ val' = <<PyDict(Override(Single(prog[2][2][2], 0), Single(prog[3][2][2], 1)))>>
            /\ sto' = [k \in {0, 1} |-> IF k = 0 THEN PyNum(prog[2][3][2][2])
                                                 ELSE PyNum(prog[3][3][2][2])]
            /\ heap'[locs'] = <<0, 1>>]_vars

\* two declarations of x have completed: x is bound to the location of the second
C20_Witness ==
    /\ prog = DSeq(Bind(Id("x"), Ref(Num(1))), Bind(Id("x"), Ref(Num(2)))) /\ Done
    /\ val = <<PyDict(Single("x", 1))>>
    /\ sto = [k \in {0, 1} |-> IF k = 0 THEN PyNum(1) ELSE PyNum(2)]

====
